---- MODULE Spec2Model ----
(***************************************************************************)
(* Site health monitoring and alerting engine of EzWeb                     *)
(* (internal/health/checker.go).  One scheduler goroutine (Checker.Start)  *)
(* drives rounds (Checker.checkAll); every round launches one worker       *)
(* goroutine per non-pending site (Checker.checkSite) under a counting     *)
(* semaphore.  Workers share the failures / alertedSites maps, guarded by  *)
(* Checker.mu.                                                             *)
(***************************************************************************)
EXTENDS Integers, Sequences, FiniteSets, TLC

\* ---------------------------------------------------------------- constants
maxConcurrentChecks == 10
DefaultAlertThreshold == 3
CertWarnDays == 14
LockoutMaxAttempts == 5
LockoutDurationMin == 15

\* ------------------------------------------------------------------- bounds
MainRounds == 3
SeqRounds == 5
PoolRounds == 2
PoolSites == 11
PruneRounds == 3
MaxDay == 3
HangRound == 2
ThresholdRounds == 4
MaxFailures == 3
TwinRounds == 2
CertRounds == 6
ContainerRounds == 4
FairRounds == 2
NoDomainRounds == 3
StreakRounds == 4

VARIABLES
    \* Checker fields set by NewChecker
    AlertThreshold, HealthRetentionDays, ActivityRetentionDays, Webhook, Email,
    \* Checker fields mutated while running
    failures, alertedSites, mu, semaphore, running,
    \* Start / checkAll goroutine
    schedPc, sites, launchIdx, wg, tickPending, cancelled,
    \* checkSite goroutines, one per site of the round
    pc, hc, isDown, shouldAlert, shouldRecover,
    \* external collaborators
    siteTable, healthChecks, activityLog, now,
    \* a second checkSite goroutine for the site of worker 1
    twin,
    \* LockoutTracker fields
    attempts, maxFails, lockDur,
    \* observation
    round, roundStart, sent, tickStale, lastExec, crashed, failCalls, lockedSince

checkerVars == <<AlertThreshold, HealthRetentionDays, ActivityRetentionDays, Webhook, Email>>
sharedVars == <<failures, alertedSites, mu>>
schedVars == <<schedPc, sites, launchIdx, wg, running, round, roundStart>>
tickerVars == <<tickPending, tickStale, cancelled>>
workerVars == <<pc, hc, isDown, shouldAlert, shouldRecover>>
storeVars == <<healthChecks, activityLog, lastExec>>
lockoutVars == <<attempts, maxFails, lockDur, failCalls, lockedSince>>
vars == <<AlertThreshold, HealthRetentionDays, ActivityRetentionDays, Webhook, Email,
          failures, alertedSites, mu, semaphore, running,
          schedPc, sites, launchIdx, wg, tickPending, cancelled,
          pc, hc, isDown, shouldAlert, shouldRecover,
          siteTable, healthChecks, activityLog, now,
          round, roundStart, sent, tickStale, lastExec, crashed,
          attempts, maxFails, lockDur, failCalls, lockedSince, twin>>

\* ------------------------------------------------------------ data helpers
Site(id, status, hasDomain, ssl, isLocal, hasServer) ==
    [ID |-> id, Status |-> status, HasDomain |-> hasDomain, SSLEnabled |-> ssl,
     IsLocal |-> isLocal, HasServer |-> hasServer]

SiteIDs == {siteTable[i].ID : i \in 1..Len(siteTable)}

SiteByID(id) == CHOOSE s \in {siteTable[i] : i \in 1..Len(siteTable)} : s.ID = id

NoCheck == [HTTPStatus |-> 0, ContainerStatus |-> ""]

\* the value NewChecker stores in Checker.AlertThreshold
NewAlertThreshold(alertThreshold) ==
    IF alertThreshold <= 0 THEN DefaultAlertThreshold ELSE alertThreshold

\* ----------------------------------------------------------------- NewChecker
NewChecker(table, alertThreshold, healthDays, activityDays, webhook, email) ==
    /\ AlertThreshold = NewAlertThreshold(alertThreshold)
    /\ HealthRetentionDays = healthDays
    /\ ActivityRetentionDays = activityDays
    /\ Webhook = webhook
    /\ Email = email
    /\ siteTable = table
    /\ failures = [id \in {table[i].ID : i \in 1..Len(table)} |-> 0]
    /\ alertedSites = [id \in {table[i].ID : i \in 1..Len(table)} |-> FALSE]
    /\ mu = 0
    /\ semaphore = 0
    /\ running = 0
    /\ schedPc = "start"
    /\ sites = <<>>
    /\ launchIdx = 1
    /\ wg = 0
    /\ tickPending = FALSE
    /\ cancelled = FALSE
    /\ pc = [id \in {table[i].ID : i \in 1..Len(table)} |-> "idle"]
    /\ hc = [id \in {table[i].ID : i \in 1..Len(table)} |-> NoCheck]
    /\ isDown = [id \in {table[i].ID : i \in 1..Len(table)} |-> FALSE]
    /\ shouldAlert = [id \in {table[i].ID : i \in 1..Len(table)} |-> FALSE]
    /\ shouldRecover = [id \in {table[i].ID : i \in 1..Len(table)} |-> FALSE]
    /\ healthChecks = {}
    /\ activityLog = {}
    /\ now = 0
    /\ round = 0
    /\ roundStart = 0
    /\ sent = {}
    /\ tickStale = FALSE
    /\ lastExec = [ok |-> TRUE, rows |-> 0]
    /\ crashed = FALSE

\* ------------------------------------------------------------ scheduler
\* the process is running (no fatal runtime error has terminated it)
Alive == ~crashed

\* checkAll entry: running.CompareAndSwap(0, 1); a failed swap skips the cycle
checkAll ==
    IF running = 0
    THEN /\ running' = 1
         /\ round' = round + 1
         /\ roundStart' = now
         /\ schedPc' = "pruneHealth"
    ELSE /\ schedPc' = "select"
         /\ UNCHANGED <<running, round, roundStart>>

\* Start: create the ticker and run the first round at once
Start ==
    /\ Alive
    /\ schedPc = "start"
    /\ checkAll
    /\ UNCHANGED <<sites, launchIdx, wg>>
    /\ UNCHANGED <<twin, lockoutVars, checkerVars, sharedVars, semaphore, tickerVars, workerVars,
                   siteTable, storeVars, now, sent, crashed>>

\* select: case <-ticker.C, then checkAll()
SelectTick ==
    /\ Alive
    /\ schedPc = "select"
    /\ tickPending
    /\ tickPending' = FALSE
    /\ tickStale' = FALSE
    /\ checkAll
    /\ UNCHANGED <<sites, launchIdx, wg, cancelled>>
    /\ UNCHANGED <<twin, lockoutVars, checkerVars, sharedVars, semaphore, workerVars,
                   siteTable, storeVars, now, sent, crashed>>

\* select: case <-ctx.Done(), return
SelectDone ==
    /\ Alive
    /\ schedPc = "select"
    /\ cancelled
    /\ schedPc' = "stopped"
    /\ UNCHANGED <<sites, launchIdx, wg, running, round, roundStart>>
    /\ UNCHANGED <<twin, lockoutVars, checkerVars, sharedVars, semaphore, tickerVars, workerVars,
                   siteTable, storeVars, now, sent, crashed>>

KeptStrict(stamp, days) == stamp > now - days

\* a row survives DELETE ... WHERE checked_at < datetime('now', '-N days')
Kept(stamp, days) == ~(stamp < now - days)

\* DELETE FROM health_checks ...; the result of Exec is discarded
PruneHealthChecks(ok) ==
    /\ Alive
    /\ schedPc = "pruneHealth"
    /\ healthChecks' = IF ok THEN {r \in healthChecks : Kept(r.CheckedAt, HealthRetentionDays)}
                             ELSE healthChecks
    /\ lastExec' = [ok |-> ok, rows |-> Cardinality(healthChecks) - Cardinality(healthChecks')]
    /\ schedPc' = "pruneActivity"
    /\ UNCHANGED <<sites, launchIdx, wg, running, round, roundStart, activityLog>>
    /\ UNCHANGED <<twin, lockoutVars, checkerVars, sharedVars, semaphore, tickerVars, workerVars,
                   siteTable, now, sent, crashed>>

\* DELETE FROM activity_log ...; the result of Exec is discarded
PruneActivityLog(ok) ==
    /\ Alive
    /\ schedPc = "pruneActivity"
    /\ activityLog' = IF ok THEN {r \in activityLog : Kept(r.CreatedAt, ActivityRetentionDays)}
                            ELSE activityLog
    /\ lastExec' = [ok |-> ok, rows |-> Cardinality(activityLog) - Cardinality(activityLog')]
    /\ schedPc' = "getSites"
    /\ UNCHANGED <<sites, launchIdx, wg, running, round, roundStart, healthChecks>>
    /\ UNCHANGED <<twin, lockoutVars, checkerVars, sharedVars, semaphore, tickerVars, workerVars,
                   siteTable, now, sent, crashed>>

\* position of the launch loop once index i is reached
LoopAt(list, i) == IF i > Len(list) THEN "wait" ELSE "launch"

\* models.GetAllSites; on error the round returns (deferred running.Store(0))
GetAllSites(ok) ==
    /\ Alive
    /\ schedPc = "getSites"
    /\ IF ok
       THEN /\ sites' = siteTable
            /\ launchIdx' = 1
            /\ schedPc' = LoopAt(siteTable, 1)
            /\ UNCHANGED running
       ELSE /\ running' = 0
            /\ schedPc' = "select"
            /\ UNCHANGED <<sites, launchIdx>>
    /\ UNCHANGED <<wg, round, roundStart>>
    /\ UNCHANGED <<twin, lockoutVars, checkerVars, sharedVars, semaphore, tickerVars, workerVars,
                   siteTable, storeVars, now, sent, crashed>>

\* for _, site := range sites: if site.Status == "pending" { continue }
LaunchSkip ==
    /\ Alive
    /\ schedPc = "launch"
    /\ sites[launchIdx].Status = "pending"
    /\ launchIdx' = launchIdx + 1
    /\ schedPc' = LoopAt(sites, launchIdx + 1)
    /\ UNCHANGED <<sites, wg, running, round, roundStart>>
    /\ UNCHANGED <<twin, lockoutVars, checkerVars, sharedVars, semaphore, tickerVars, workerVars,
                   siteTable, storeVars, now, sent, crashed>>

SlotFreeUncapped == TRUE

\* ch.semaphore <- struct{}{} can proceed (buffered channel not full)
SlotFree == semaphore < maxConcurrentChecks

LaunchPendingToo ==
    /\ Alive
    /\ schedPc = "launch"
    /\ SlotFree
    /\ wg' = wg + 1
    /\ semaphore' = semaphore + 1
    /\ pc' = [pc EXCEPT ![sites[launchIdx].ID] = "probe"]
    /\ launchIdx' = launchIdx + 1
    /\ schedPc' = LoopAt(sites, launchIdx + 1)
    /\ UNCHANGED <<sites, running, round, roundStart, hc, isDown, shouldAlert, shouldRecover>>
    /\ UNCHANGED <<twin, lockoutVars, checkerVars, sharedVars, tickerVars,
                   siteTable, storeVars, now, sent, crashed>>

\* wg.Add(1); acquire a slot; go func(site) { ... ch.checkSite(s) }
Launch ==
    /\ Alive
    /\ schedPc = "launch"
    /\ sites[launchIdx].Status # "pending"
    /\ SlotFree
    /\ wg' = wg + 1
    /\ semaphore' = semaphore + 1
    /\ pc' = [pc EXCEPT ![sites[launchIdx].ID] = "probe"]
    /\ launchIdx' = launchIdx + 1
    /\ schedPc' = LoopAt(sites, launchIdx + 1)
    /\ UNCHANGED <<sites, running, round, roundStart, hc, isDown, shouldAlert, shouldRecover>>
    /\ UNCHANGED <<twin, lockoutVars, checkerVars, sharedVars, tickerVars,
                   siteTable, storeVars, now, sent, crashed>>

WaitReadyNoJoin == TRUE

\* wg.Wait() returns
WaitReady == wg = 0

WaitDoneKeepsFlag ==
    /\ Alive
    /\ schedPc = "wait"
    /\ WaitReady
    /\ schedPc' = "select"
    /\ UNCHANGED <<sites, launchIdx, wg, running, round, roundStart>>
    /\ UNCHANGED <<twin, lockoutVars, checkerVars, sharedVars, semaphore, tickerVars, workerVars,
                   siteTable, storeVars, now, sent, crashed>>

\* wg.Wait(); deferred running.Store(0); back to the select of Start
WaitDone ==
    /\ Alive
    /\ schedPc = "wait"
    /\ WaitReady
    /\ running' = 0
    /\ schedPc' = "select"
    /\ UNCHANGED <<sites, launchIdx, wg, round, roundStart>>
    /\ UNCHANGED <<twin, lockoutVars, checkerVars, sharedVars, semaphore, tickerVars, workerVars,
                   siteTable, storeVars, now, sent, crashed>>

\* the ticker delivers a tick into ticker.C (capacity 1; a tick is dropped
\* when one is already waiting)
Tick ==
    /\ Alive
    /\ schedPc \notin {"start", "stopped"}
    /\ ~tickPending
    /\ tickPending' = TRUE
    /\ tickStale' = (running = 1)
    /\ UNCHANGED cancelled
    /\ UNCHANGED <<twin, lockoutVars, checkerVars, sharedVars, semaphore, schedVars, workerVars,
                   siteTable, storeVars, now, sent, crashed>>

\* the context passed to Start is cancelled
Cancel ==
    /\ Alive
    /\ ~cancelled
    /\ cancelled' = TRUE
    /\ UNCHANGED <<tickPending, tickStale>>
    /\ UNCHANGED <<twin, lockoutVars, checkerVars, sharedVars, semaphore, schedVars, workerVars,
                   siteTable, storeVars, now, sent, crashed>>

\* ------------------------------------------------------------ checkSite
\* one call of a notifier, as the transport sees it
Call(s, chan, kind, count, detail, ok) ==
    [site |-> s, round |-> round, chan |-> chan, kind |-> kind,
     count |-> count, detail |-> detail, ok |-> ok]

CertExpiringStrict(site, cert) ==
    /\ site.SSLEnabled
    /\ site.HasDomain
    /\ ~cert.err
    /\ cert.days < CertWarnDays
    /\ cert.days > 0
    /\ Webhook

\* the certificate probe sends a webhook alert with failure count 0
CertExpiring(site, cert) ==
    /\ site.SSLEnabled
    /\ site.HasDomain
    /\ ~cert.err
    /\ cert.days <= CertWarnDays
    /\ cert.days > 0
    /\ Webhook

\* the webhook call the certificate probe makes, if any
CertCalls(s, cert, certSent) ==
    IF CertExpiring(SiteByID(s), cert)
    THEN {Call(s, "webhook", "alert", 0, "cert", certSent)}
    ELSE {}

ProbeResultAlwaysHTTP(site, http, cs) ==
    [HTTPStatus |-> http,
     ContainerStatus |-> IF site.IsLocal \/ site.HasServer THEN cs ELSE ""]

\* the health check filled in by the HTTP probe (skipped without a domain)
\* and the container probe (skipped for a site that is neither local nor
\* assigned to a server)
ProbeResult(site, http, cs) ==
    [HTTPStatus |-> IF site.HasDomain THEN http ELSE 0,
     ContainerStatus |-> IF site.IsLocal \/ site.HasServer THEN cs ELSE ""]

\* the row CreateHealthCheck inserts (checked_at defaults to CURRENT_TIMESTAMP)
Row(s, check) ==
    [SiteID |-> s, HTTPStatus |-> check.HTTPStatus,
     ContainerStatus |-> check.ContainerStatus, CheckedAt |-> now]

CertError == [err |-> TRUE, days |-> 0]
CertDays(d) == [err |-> FALSE, days |-> d]

\* HTTP probe, certificate probe and container probe of one site:
\*   http  the status of the GET, 0 on a transport error
\*   cert  whether CheckCertExpiry failed, and the days until the leaf
\*         certificate expires
\*   cs    the container status the local or remote runtime reports
Probe(s, http, cert, cs, certSent) ==
    /\ Alive
    /\ pc[s] = "probe"
    /\ hc' = [hc EXCEPT ![s] = ProbeResult(SiteByID(s), http, cs)]
    /\ sent' = sent \cup CertCalls(s, cert, certSent)
    /\ pc' = [pc EXCEPT ![s] = "record"]
    /\ UNCHANGED <<isDown, shouldAlert, shouldRecover>>
    /\ UNCHANGED <<twin, lockoutVars, checkerVars, sharedVars, semaphore, schedVars, tickerVars,
                   siteTable, storeVars, now, crashed>>

IsDownIgnoresExited(check) ==
    \/ check.HTTPStatus = 0
    \/ check.HTTPStatus >= 400
    \/ check.ContainerStatus = "not_found"

\* isDown := hc.HTTPStatus == 0 || hc.HTTPStatus >= 400 ||
\*           hc.ContainerStatus == "not_found" || hc.ContainerStatus == "exited"
IsDown(check) ==
    \/ check.HTTPStatus = 0
    \/ check.HTTPStatus >= 400
    \/ check.ContainerStatus = "not_found"
    \/ check.ContainerStatus = "exited"

\* models.CreateHealthCheck (its error is only logged), then the verdict
CreateHealthCheck(s, ok) ==
    /\ Alive
    /\ pc[s] = "record"
    /\ IF ok
       THEN healthChecks' = healthChecks \cup {Row(s, hc[s])}
       ELSE UNCHANGED healthChecks
    /\ isDown' = [isDown EXCEPT ![s] = IsDown(hc[s])]
    /\ pc' = [pc EXCEPT ![s] = "lock"]
    /\ UNCHANGED <<hc, shouldAlert, shouldRecover, activityLog, lastExec>>
    /\ UNCHANGED <<twin, lockoutVars, checkerVars, sharedVars, semaphore, schedVars, tickerVars,
                   siteTable, now, sent, crashed>>

LockNoMutex(s) ==
    /\ Alive
    /\ pc[s] = "lock"
    /\ mu' = s
    /\ pc' = [pc EXCEPT ![s] = "locked"]
    /\ UNCHANGED <<failures, alertedSites, hc, isDown, shouldAlert, shouldRecover>>
    /\ UNCHANGED <<twin, lockoutVars, checkerVars, semaphore, schedVars, tickerVars,
                   siteTable, storeVars, now, sent, crashed>>

\* ch.mu.Lock()
Lock(s) ==
    /\ Alive
    /\ pc[s] = "lock"
    /\ mu = 0
    /\ mu' = s
    /\ pc' = [pc EXCEPT ![s] = "locked"]
    /\ UNCHANGED <<failures, alertedSites, hc, isDown, shouldAlert, shouldRecover>>
    /\ UNCHANGED <<twin, lockoutVars, checkerVars, semaphore, schedVars, tickerVars,
                   siteTable, storeVars, now, sent, crashed>>

DecideEarly(count, alerted, down, threshold) ==
    IF down
    THEN [failures |-> count + 1,
          alerted |-> alerted \/ (count + 2 >= threshold),
          shouldAlert |-> (count + 2 >= threshold) /\ ~alerted,
          shouldRecover |-> FALSE]
    ELSE [failures |-> 0,
          alerted |-> FALSE,
          shouldAlert |-> FALSE,
          shouldRecover |-> (count > 0) /\ alerted]

DecideKeepsAlerted(count, alerted, down, threshold) ==
    IF down
    THEN [failures |-> count + 1,
          alerted |-> alerted \/ (count + 1 >= threshold),
          shouldAlert |-> (count + 1 >= threshold) /\ ~alerted,
          shouldRecover |-> FALSE]
    ELSE [failures |-> 0,
          alerted |-> alerted,
          shouldAlert |-> FALSE,
          shouldRecover |-> (count > 0) /\ alerted]

DecideNoDebounce(count, alerted, down, threshold) ==
    IF down
    THEN [failures |-> count + 1,
          alerted |-> alerted \/ (count + 1 >= threshold),
          shouldAlert |-> (count + 1 >= threshold),
          shouldRecover |-> FALSE]
    ELSE [failures |-> 0,
          alerted |-> FALSE,
          shouldAlert |-> FALSE,
          shouldRecover |-> (count > 0) /\ alerted]

\* the decide-and-update block between Lock and Unlock: the new failure
\* count, the new alerted flag and the two dispatch decisions
Decide(count, alerted, down, threshold) ==
    IF down
    THEN [failures |-> count + 1,
          alerted |-> alerted \/ (count + 1 >= threshold),
          shouldAlert |-> (count + 1 >= threshold) /\ ~alerted,
          shouldRecover |-> FALSE]
    ELSE [failures |-> 0,
          alerted |-> FALSE,
          shouldAlert |-> FALSE,
          shouldRecover |-> (count > 0) /\ alerted]

\* the statement the worker reaches after the given dispatch stage
AfterEmailAlert(sa, sr) == IF sr /\ Email THEN "emailRecovery" ELSE "return"
AfterWebhookRecovery(sa, sr) == IF sa /\ Email THEN "emailAlert" ELSE AfterEmailAlert(sa, sr)
AfterWebhookAlert(sa, sr) == IF sr /\ Webhook THEN "webhookRecovery" ELSE AfterWebhookRecovery(sa, sr)
AfterUnlock(sa, sr) == IF sa /\ Webhook THEN "webhookAlert" ELSE AfterWebhookAlert(sa, sr)

\* the statements of checkSite that read or write failures / alertedSites:
\* the locked block, the rollback, and the failure count handed to the two
\* SendAlert calls
AccessesMaps(s) == pc[s] \in {"locked", "rollback", "webhookAlert", "emailAlert"}

DecideAndUpdateKeepsLock(s) ==
    /\ Alive
    /\ pc[s] = "locked"
    /\ mu = s
    /\ LET d == Decide(failures[s], alertedSites[s], isDown[s], AlertThreshold)
       IN /\ failures' = [failures EXCEPT ![s] = d.failures]
          /\ alertedSites' = [alertedSites EXCEPT ![s] = d.alerted]
          /\ shouldAlert' = [shouldAlert EXCEPT ![s] = d.shouldAlert]
          /\ shouldRecover' = [shouldRecover EXCEPT ![s] = d.shouldRecover]
          /\ pc' = [pc EXCEPT ![s] = AfterUnlock(d.shouldAlert, d.shouldRecover)]
    /\ mu' = mu
    /\ UNCHANGED <<hc, isDown>>
    /\ UNCHANGED <<twin, lockoutVars, checkerVars, semaphore, schedVars, tickerVars,
                   siteTable, storeVars, now, sent, crashed>>

\* the block under the lock, then ch.mu.Unlock()
DecideAndUpdate(s) ==
    /\ Alive
    /\ pc[s] = "locked"
    /\ mu = s
    /\ LET d == Decide(failures[s], alertedSites[s], isDown[s], AlertThreshold)
       IN /\ failures' = [failures EXCEPT ![s] = d.failures]
          /\ alertedSites' = [alertedSites EXCEPT ![s] = d.alerted]
          /\ shouldAlert' = [shouldAlert EXCEPT ![s] = d.shouldAlert]
          /\ shouldRecover' = [shouldRecover EXCEPT ![s] = d.shouldRecover]
          /\ pc' = [pc EXCEPT ![s] = AfterUnlock(d.shouldAlert, d.shouldRecover)]
    /\ mu' = 0
    /\ UNCHANGED <<hc, isDown>>
    /\ UNCHANGED <<twin, lockoutVars, checkerVars, semaphore, schedVars, tickerVars,
                   siteTable, storeVars, now, sent, crashed>>

\* ch.failures[site.ID] read without the lock: when another goroutine is
\* inside the locked section (a map write), the runtime may stop the process
\* with "concurrent map read and map write"
UnlockedRead(s) == IF mu # 0 /\ mu # s THEN {"value", "fatal"} ELSE {"value"}

\* ch.Webhook.SendAlert(site.Domain, ch.failures[site.ID], errMsg)
WebhookSendAlert(s, ok) ==
    /\ Alive
    /\ pc[s] = "webhookAlert"
    /\ \E outcome \in UnlockedRead(s) :
          IF outcome = "fatal"
          THEN /\ crashed' = TRUE
               /\ UNCHANGED <<sent, pc>>
          ELSE /\ sent' = sent \cup {Call(s, "webhook", "alert", failures[s], "down", ok)}
               /\ pc' = [pc EXCEPT ![s] =
                            IF ok THEN AfterWebhookAlert(shouldAlert[s], shouldRecover[s])
                                  ELSE "rollbackLock"]
               /\ UNCHANGED crashed
    /\ UNCHANGED <<hc, isDown, shouldAlert, shouldRecover>>
    /\ UNCHANGED <<twin, lockoutVars, checkerVars, sharedVars, semaphore, schedVars, tickerVars,
                   siteTable, storeVars, now>>

\* the webhook alert failed: ch.mu.Lock()
RollbackLock(s) ==
    /\ Alive
    /\ pc[s] = "rollbackLock"
    /\ mu = 0
    /\ mu' = s
    /\ pc' = [pc EXCEPT ![s] = "rollback"]
    /\ UNCHANGED <<failures, alertedSites, hc, isDown, shouldAlert, shouldRecover>>
    /\ UNCHANGED <<twin, lockoutVars, checkerVars, semaphore, schedVars, tickerVars,
                   siteTable, storeVars, now, sent, crashed>>

RolledBackKept(alerted) == alerted

\* the flag the rollback stores
RolledBack(alerted) == FALSE

RollbackClearsAll(s) ==
    /\ Alive
    /\ pc[s] = "rollback"
    /\ mu = s
    /\ alertedSites' = [id \in DOMAIN alertedSites |-> FALSE]
    /\ mu' = 0
    /\ pc' = [pc EXCEPT ![s] = AfterWebhookAlert(shouldAlert[s], shouldRecover[s])]
    /\ UNCHANGED <<failures, hc, isDown, shouldAlert, shouldRecover>>
    /\ UNCHANGED <<twin, lockoutVars, checkerVars, semaphore, schedVars, tickerVars,
                   siteTable, storeVars, now, sent, crashed>>

RollbackResetsCount(s) ==
    /\ Alive
    /\ pc[s] = "rollback"
    /\ mu = s
    /\ alertedSites' = [alertedSites EXCEPT ![s] = RolledBack(alertedSites[s])]
    /\ failures' = [failures EXCEPT ![s] = 0]
    /\ mu' = 0
    /\ pc' = [pc EXCEPT ![s] = AfterWebhookAlert(shouldAlert[s], shouldRecover[s])]
    /\ UNCHANGED <<hc, isDown, shouldAlert, shouldRecover>>
    /\ UNCHANGED <<twin, lockoutVars, checkerVars, semaphore, schedVars, tickerVars,
                   siteTable, storeVars, now, sent, crashed>>

\* ch.alertedSites[site.ID] = false; ch.mu.Unlock()
Rollback(s) ==
    /\ Alive
    /\ pc[s] = "rollback"
    /\ mu = s
    /\ alertedSites' = [alertedSites EXCEPT ![s] = RolledBack(alertedSites[s])]
    /\ mu' = 0
    /\ pc' = [pc EXCEPT ![s] = AfterWebhookAlert(shouldAlert[s], shouldRecover[s])]
    /\ UNCHANGED <<failures, hc, isDown, shouldAlert, shouldRecover>>
    /\ UNCHANGED <<twin, lockoutVars, checkerVars, semaphore, schedVars, tickerVars,
                   siteTable, storeVars, now, sent, crashed>>

WebhookSendRecoveryReverts(s, ok) ==
    /\ Alive
    /\ pc[s] = "webhookRecovery"
    /\ sent' = sent \cup {Call(s, "webhook", "recovery", 0, "up", ok)}
    /\ pc' = [pc EXCEPT ![s] = AfterWebhookRecovery(shouldAlert[s], shouldRecover[s])]
    /\ alertedSites' = [alertedSites EXCEPT ![s] = ~ok]
    /\ UNCHANGED <<failures, mu, hc, isDown, shouldAlert, shouldRecover>>
    /\ UNCHANGED <<twin, lockoutVars, checkerVars, semaphore, schedVars, tickerVars,
                   siteTable, storeVars, now, crashed>>

\* ch.Webhook.SendRecovery(site.Domain)
WebhookSendRecovery(s, ok) ==
    /\ Alive
    /\ pc[s] = "webhookRecovery"
    /\ sent' = sent \cup {Call(s, "webhook", "recovery", 0, "up", ok)}
    /\ pc' = [pc EXCEPT ![s] = AfterWebhookRecovery(shouldAlert[s], shouldRecover[s])]
    /\ UNCHANGED <<hc, isDown, shouldAlert, shouldRecover>>
    /\ UNCHANGED <<twin, lockoutVars, checkerVars, sharedVars, semaphore, schedVars, tickerVars,
                   siteTable, storeVars, now, crashed>>

EmailSendAlertRollsBack(s, ok) ==
    /\ Alive
    /\ pc[s] = "emailAlert"
    /\ \E outcome \in UnlockedRead(s) :
          IF outcome = "fatal"
          THEN /\ crashed' = TRUE
               /\ UNCHANGED <<sent, pc, alertedSites>>
          ELSE /\ sent' = sent \cup {Call(s, "email", "alert", failures[s], "down", ok)}
               /\ pc' = [pc EXCEPT ![s] = AfterEmailAlert(shouldAlert[s], shouldRecover[s])]
               /\ alertedSites' = [alertedSites EXCEPT ![s] = IF ok THEN @ ELSE FALSE]
               /\ UNCHANGED crashed
    /\ UNCHANGED <<failures, mu, hc, isDown, shouldAlert, shouldRecover>>
    /\ UNCHANGED <<twin, lockoutVars, checkerVars, semaphore, schedVars, tickerVars,
                   siteTable, storeVars, now>>

\* ch.Email.SendAlert(site.Domain, ch.failures[site.ID], errMsg)
EmailSendAlert(s, ok) ==
    /\ Alive
    /\ pc[s] = "emailAlert"
    /\ \E outcome \in UnlockedRead(s) :
          IF outcome = "fatal"
          THEN /\ crashed' = TRUE
               /\ UNCHANGED <<sent, pc>>
          ELSE /\ sent' = sent \cup {Call(s, "email", "alert", failures[s], "down", ok)}
               /\ pc' = [pc EXCEPT ![s] = AfterEmailAlert(shouldAlert[s], shouldRecover[s])]
               /\ UNCHANGED crashed
    /\ UNCHANGED <<hc, isDown, shouldAlert, shouldRecover>>
    /\ UNCHANGED <<twin, lockoutVars, checkerVars, sharedVars, semaphore, schedVars, tickerVars,
                   siteTable, storeVars, now>>

\* ch.Email.SendRecovery(site.Domain)
EmailSendRecovery(s, ok) ==
    /\ Alive
    /\ pc[s] = "emailRecovery"
    /\ sent' = sent \cup {Call(s, "email", "recovery", 0, "up", ok)}
    /\ pc' = [pc EXCEPT ![s] = "return"]
    /\ UNCHANGED <<hc, isDown, shouldAlert, shouldRecover>>
    /\ UNCHANGED <<twin, lockoutVars, checkerVars, sharedVars, semaphore, schedVars, tickerVars,
                   siteTable, storeVars, now, crashed>>

\* checkSite returns: deferred <-ch.semaphore and wg.Done()
Return(s) ==
    /\ Alive
    /\ pc[s] = "return"
    /\ semaphore' = semaphore - 1
    /\ wg' = wg - 1
    /\ pc' = [pc EXCEPT ![s] = "idle"]
    /\ hc' = [hc EXCEPT ![s] = NoCheck]
    /\ isDown' = [isDown EXCEPT ![s] = FALSE]
    /\ shouldAlert' = [shouldAlert EXCEPT ![s] = FALSE]
    /\ shouldRecover' = [shouldRecover EXCEPT ![s] = FALSE]
    /\ UNCHANGED <<schedPc, sites, launchIdx, running, round, roundStart>>
    /\ UNCHANGED <<twin, lockoutVars, checkerVars, sharedVars, tickerVars,
                   siteTable, storeVars, now, sent, crashed>>

\* one whole call of checkSite as a single step of its goroutine, from the
\* probes to the deferred release of the slot: the same operations as the
\* steps above, used where only the launch and the return of a worker matter
checkSite(s, http, cert, cs, certSent, recorded, webhookOk, emailOk) ==
    LET check == ProbeResult(SiteByID(s), http, cs)
        d == Decide(failures[s], alertedSites[s], IsDown(check), AlertThreshold)
        calls ==
            (IF d.shouldAlert /\ Webhook
             THEN {Call(s, "webhook", "alert", d.failures, "down", webhookOk)} ELSE {})
            \cup (IF d.shouldRecover /\ Webhook
                  THEN {Call(s, "webhook", "recovery", 0, "up", webhookOk)} ELSE {})
            \cup (IF d.shouldAlert /\ Email
                  THEN {Call(s, "email", "alert", d.failures, "down", emailOk)} ELSE {})
            \cup (IF d.shouldRecover /\ Email
                  THEN {Call(s, "email", "recovery", 0, "up", emailOk)} ELSE {})
    IN
    /\ Alive
    /\ pc[s] = "probe"
    /\ mu = 0
    /\ healthChecks' = IF recorded THEN healthChecks \cup {Row(s, check)} ELSE healthChecks
    /\ failures' = [failures EXCEPT ![s] = d.failures]
    /\ alertedSites' = [alertedSites EXCEPT ![s] =
                          IF d.shouldAlert /\ Webhook /\ ~webhookOk
                          THEN RolledBack(d.alerted) ELSE d.alerted]
    /\ sent' = sent \cup CertCalls(s, cert, certSent) \cup calls
    /\ semaphore' = semaphore - 1
    /\ wg' = wg - 1
    /\ pc' = [pc EXCEPT ![s] = "idle"]
    /\ UNCHANGED <<mu, hc, isDown, shouldAlert, shouldRecover, activityLog, lastExec>>
    /\ UNCHANGED <<schedPc, sites, launchIdx, running, round, roundStart>>
    /\ UNCHANGED <<twin, lockoutVars, checkerVars, tickerVars, siteTable, now, crashed>>

\* ------------------------------------------------------ container probes
\* what the container runtime does when asked, as a record:
\*   step   the call that fails ("client", "inspect", "lookup", "ssh", "run")
\*          or "none"
\*   state  the state the runtime reports for the container
\*   listed whether the compose listing finds a container of that name
Outcome(step, state, listed) == [step |-> step, state |-> state, listed |-> listed]

\* strings.TrimSpace on the command output, given as its sequence of
\* characters grouped into words and white space
IsSpace(token) == token \in {" ", "\n", "\t", "\r"}

RECURSIVE TrimLeft(_)
TrimLeft(out) ==
    IF out # << >> /\ IsSpace(Head(out)) THEN TrimLeft(Tail(out)) ELSE out

RECURSIVE TrimRight(_)
TrimRight(out) ==
    IF out # << >> /\ IsSpace(out[Len(out)])
    THEN TrimRight(SubSeq(out, 1, Len(out) - 1))
    ELSE out

RECURSIVE Concat(_)
Concat(out) == IF out = << >> THEN "" ELSE Head(out) \o Concat(Tail(out))

TrimSpace(out) == Concat(TrimLeft(TrimRight(out)))

\* what `docker inspect --format='{{.State.Status}}' NAME 2>/dev/null ||
\* echo 'not found'` prints on the remote host
RemoteOutput(o) ==
    IF o.step = "inspect" THEN <<"not", " ", "found", "\n">> ELSE <<o.state, "\n">>

\* checkLocalContainer: the ContainerStatus it stores
checkLocalContainer(site, o) ==
    IF o.step = "client" THEN "docker_error"
    ELSE IF o.step = "inspect"
         THEN IF site.HasCompose /\ o.listed THEN o.state ELSE "not_found"
         ELSE o.state

\* checkRemoteContainer: the ContainerStatus it stores ("" when it returns
\* without storing one)
checkRemoteContainer(site, o) ==
    IF o.step = "lookup" THEN ""
    ELSE IF o.step = "ssh" THEN "ssh_error"
    ELSE IF o.step = "run" THEN "unknown"
    ELSE TrimSpace(RemoteOutput(o))

\* the container probe of checkSite
ContainerProbe(site, o) ==
    IF site.IsLocal THEN checkLocalContainer(site, o)
    ELSE IF site.HasServer THEN checkRemoteContainer(site, o)
    ELSE ""

\* ------------------------------------- a second execution for one site
\* the value mu holds while the second goroutine owns the mutex
TwinID == -1

\* no second execution has been started
NoTwin ==
    [pc |-> "idle", count |-> 0, alerted |-> FALSE, shouldAlert |-> FALSE,
     round |-> 0, runs |-> 0]

TwinIdle == twin = NoTwin

\* a second checkSite for site 1 has reached a down verdict while the
\* worker of the round is inside checkSite for the same site
TwinEnter ==
    /\ Alive
    /\ pc[1] # "idle"
    /\ twin.pc \in {"idle", "done"}
    /\ twin.round < round
    /\ twin' = [twin EXCEPT !.pc = "lock", !.round = round, !.shouldAlert = FALSE]
    /\ UNCHANGED <<lockoutVars, checkerVars, sharedVars, semaphore, schedVars, tickerVars,
                   workerVars, siteTable, storeVars, now, sent, crashed>>

\* ch.mu.Lock()
TwinLock ==
    /\ Alive
    /\ twin.pc = "lock"
    /\ mu = 0
    /\ mu' = TwinID
    /\ twin' = [twin EXCEPT !.pc = "read"]
    /\ UNCHANGED <<failures, alertedSites>>
    /\ UNCHANGED <<lockoutVars, checkerVars, semaphore, schedVars, tickerVars,
                   workerVars, siteTable, storeVars, now, sent, crashed>>

\* the reads of the locked block: ch.failures[site.ID], ch.alertedSites[site.ID]
TwinRead ==
    /\ Alive
    /\ twin.pc = "read"
    /\ twin' = [twin EXCEPT !.pc = "write", !.count = failures[1],
                            !.alerted = alertedSites[1]]
    /\ UNCHANGED <<lockoutVars, checkerVars, sharedVars, semaphore, schedVars, tickerVars,
                   workerVars, siteTable, storeVars, now, sent, crashed>>

\* the writes of the locked block from the values read, then ch.mu.Unlock()
TwinWrite ==
    /\ Alive
    /\ twin.pc = "write"
    /\ LET d == Decide(twin.count, twin.alerted, TRUE, AlertThreshold)
       IN /\ failures' = [failures EXCEPT ![1] = d.failures]
          /\ alertedSites' = [alertedSites EXCEPT ![1] = d.alerted]
          /\ twin' = [twin EXCEPT !.pc = "done", !.shouldAlert = d.shouldAlert,
                                  !.runs = @ + 1]
    /\ mu' = 0
    /\ UNCHANGED <<lockoutVars, checkerVars, semaphore, schedVars, tickerVars,
                   workerVars, siteTable, storeVars, now, sent, crashed>>

\* ------------------------------------------------------- LockoutTracker
\* the keys (client addresses) presented to the tracker
Keys == {"10.0.0.1", "10.0.0.2"}

\* the zero time.Time, long before the clock started
ZeroTime == -1000

\* &loginAttempt{}
loginAttempt == [Count |-> 0, LastFail |-> ZeroTime, LockedAt |-> ZeroTime]

\* time.Since(t)
Since(t) == now - t

\* NewLockoutTracker(maxFailedAttempts, lockoutDuration)
NewLockoutTracker(maxFailedAttempts, lockoutDuration) ==
    /\ attempts = << >>
    /\ maxFails = maxFailedAttempts
    /\ lockDur = lockoutDuration
    /\ failCalls = [k \in Keys |-> 0]
    /\ lockedSince = [k \in Keys |-> ZeroTime]

\* the tracker main() builds from the default configuration, never called
LockoutIdle == NewLockoutTracker(LockoutMaxAttempts, LockoutDurationMin)

IsLockedResultInclusive(key) ==
    /\ key \in DOMAIN attempts
    /\ attempts[key].Count >= maxFails
    /\ Since(attempts[key].LockedAt) <= lockDur

\* the value IsLocked(key) returns
IsLockedResult(key) ==
    /\ key \in DOMAIN attempts
    /\ attempts[key].Count >= maxFails
    /\ Since(attempts[key].LockedAt) < lockDur

\* delete(lt.attempts, key)
Delete(key) == [k \in DOMAIN attempts \ {key} |-> attempts[k]]

\* IsLocked(key): an entry whose lockout has expired is deleted
IsLocked(key) ==
    /\ Alive
    /\ IF /\ key \in DOMAIN attempts
          /\ attempts[key].Count >= maxFails
          /\ Since(attempts[key].LockedAt) >= lockDur
       THEN /\ attempts' = Delete(key)
            /\ lockedSince' = [lockedSince EXCEPT ![key] = ZeroTime]
       ELSE UNCHANGED <<attempts, lockedSince>>
    /\ UNCHANGED <<maxFails, lockDur, failCalls>>
    /\ UNCHANGED <<twin, checkerVars, sharedVars, semaphore, schedVars, tickerVars, workerVars,
                   siteTable, storeVars, now, sent, crashed>>

\* RecordFailure(key); failCalls counts the failures recorded since the tracker
\* was created or the key was last reset, lockedSince is the time at which a
\* key that was not locked became locked
RecordFailure(key) ==
    /\ Alive
    /\ failCalls[key] < MaxFailures
    /\ LET a == IF key \in DOMAIN attempts THEN attempts[key] ELSE loginAttempt
           count == a.Count + 1
           b == [Count |-> count,
                 LastFail |-> now,
                 LockedAt |-> IF count >= maxFails THEN now ELSE a.LockedAt]
       IN /\ attempts' = [k \in DOMAIN attempts \cup {key} |->
                            IF k = key THEN b ELSE attempts[k]]
          /\ lockedSince' =
                [lockedSince EXCEPT ![key] =
                    IF ~IsLockedResult(key) /\ count >= maxFails /\ lockDur > 0
                    THEN now ELSE @]
    /\ failCalls' = [failCalls EXCEPT ![key] = @ + 1]
    /\ UNCHANGED <<maxFails, lockDur>>
    /\ UNCHANGED <<twin, checkerVars, sharedVars, semaphore, schedVars, tickerVars, workerVars,
                   siteTable, storeVars, now, sent, crashed>>

\* Reset(key)
Reset(key) ==
    /\ Alive
    /\ attempts' = Delete(key)
    /\ failCalls' = [failCalls EXCEPT ![key] = 0]
    /\ lockedSince' = [lockedSince EXCEPT ![key] = ZeroTime]
    /\ UNCHANGED <<maxFails, lockDur>>
    /\ UNCHANGED <<twin, checkerVars, sharedVars, semaphore, schedVars, tickerVars, workerVars,
                   siteTable, storeVars, now, sent, crashed>>

\* ------------------------------------------------- specification: engine
\* two active sites, one local and one remote, probed concurrently;
\* both notifier channels configured, AlertThreshold 2
MainSites == <<Site(1, "running", TRUE, FALSE, TRUE, FALSE),
               Site(2, "pending", TRUE, FALSE, TRUE, FALSE),
               Site(3, "running", TRUE, FALSE, FALSE, TRUE)>>

Init ==
    /\ NewChecker(MainSites, 2, 30, 90, TRUE, TRUE)
    /\ LockoutIdle
    /\ TwinIdle

Next ==
    \/ Start
    \/ SelectTick
    \/ SelectDone
    \/ PruneHealthChecks(TRUE)
    \/ PruneActivityLog(TRUE)
    \/ \E ok \in BOOLEAN : GetAllSites(ok)
    \/ LaunchSkip
    \/ Launch
    \/ WaitDone
    \/ (round < MainRounds /\ Tick)
    \/ Cancel
    \/ \E s \in SiteIDs, http \in {0, 200} : Probe(s, http, CertError, "running", TRUE)
    \/ \E s \in SiteIDs : CreateHealthCheck(s, TRUE)
    \/ \E s \in SiteIDs : Lock(s)
    \/ \E s \in SiteIDs : DecideAndUpdate(s)
    \/ \E s \in SiteIDs, ok \in BOOLEAN : WebhookSendAlert(s, ok)
    \/ \E s \in SiteIDs : RollbackLock(s)
    \/ \E s \in SiteIDs : Rollback(s)
    \/ \E s \in SiteIDs, ok \in BOOLEAN : WebhookSendRecovery(s, ok)
    \/ \E s \in SiteIDs, ok \in BOOLEAN : EmailSendAlert(s, ok)
    \/ \E s \in SiteIDs, ok \in BOOLEAN : EmailSendRecovery(s, ok)
    \/ \E s \in SiteIDs : Return(s)

Spec == Init /\ [][Next]_vars

\* --------------------------------------------- specification: worker pool
\* more active sites than worker slots; each worker is one checkSite step
PoolTable ==
    [i \in 1..(PoolSites + 1) |->
        Site(i, IF i = 2 THEN "pending" ELSE "running", TRUE, FALSE, TRUE, FALSE)]

PoolInit ==
    /\ NewChecker(PoolTable, DefaultAlertThreshold, 30, 90, TRUE, TRUE)
    /\ LockoutIdle
    /\ TwinIdle

PoolNext ==
    \/ Start
    \/ SelectTick
    \/ SelectDone
    \/ PruneHealthChecks(TRUE)
    \/ PruneActivityLog(TRUE)
    \/ GetAllSites(TRUE)
    \/ LaunchSkip
    \/ Launch
    \/ WaitDone
    \/ (round < PoolRounds /\ Tick)
    \/ Cancel
    \/ \E s \in SiteIDs :
          checkSite(s, 200, CertError, "running", TRUE, TRUE, TRUE, TRUE)

SpecPool == PoolInit /\ [][PoolNext]_vars

\* ------------------------------------- specification: one outage, scripted
\* one SSL site whose probes are down in rounds 1 to 4 and up from round 5
\* on; every notifier call succeeds
SeqSites == <<Site(1, "running", TRUE, TRUE, TRUE, FALSE)>>

SeqOutcomes(r) ==
    IF r <= 4
    THEN {<<0, "running">>, <<404, "running">>, <<200, "exited">>}
    ELSE {<<200, "running">>}

SeqInit ==
    /\ \E threshold \in {0, 3}, webhook \in BOOLEAN, email \in BOOLEAN :
          NewChecker(SeqSites, threshold, 30, 90, webhook, email)
    /\ LockoutIdle
    /\ TwinIdle

SeqNext ==
    \/ Start
    \/ SelectTick
    \/ SelectDone
    \/ PruneHealthChecks(TRUE)
    \/ PruneActivityLog(TRUE)
    \/ GetAllSites(TRUE)
    \/ Launch
    \/ WaitDone
    \/ (round < SeqRounds /\ Tick)
    \/ Cancel
    \/ \E o \in SeqOutcomes(round), cert \in {CertError, CertDays(10), CertDays(30)} :
          Probe(1, o[1], cert, o[2], TRUE)
    \/ \E ok \in BOOLEAN : CreateHealthCheck(1, ok)
    \/ Lock(1)
    \/ DecideAndUpdate(1)
    \/ WebhookSendAlert(1, TRUE)
    \/ WebhookSendRecovery(1, TRUE)
    \/ EmailSendAlert(1, TRUE)
    \/ EmailSendRecovery(1, TRUE)
    \/ Return(1)

SpecSeq == SeqInit /\ [][SeqNext]_vars

\* ------------------------------------------- specification: down verdict
\* one round over one site, every combination of HTTP status and container
\* status; AlertThreshold 1, so that a down verdict alerts at once
VerdictSites == <<Site(1, "running", TRUE, FALSE, TRUE, FALSE)>>

HTTPStatuses == {0, 200, 204, 301, 399, 400, 404, 500, 503}

ContainerStatuses ==
    {"running", "exited", "not_found", "docker_error", "ssh_error", "unknown", "", "paused"}

VerdictInit ==
    /\ NewChecker(VerdictSites, 1, 30, 90, TRUE, FALSE)
    /\ LockoutIdle
    /\ TwinIdle

VerdictNext ==
    \/ Start
    \/ SelectDone
    \/ PruneHealthChecks(TRUE)
    \/ PruneActivityLog(TRUE)
    \/ GetAllSites(TRUE)
    \/ Launch
    \/ WaitDone
    \/ Cancel
    \/ \E http \in HTTPStatuses, cs \in ContainerStatuses :
          Probe(1, http, CertError, cs, TRUE)
    \/ CreateHealthCheck(1, TRUE)
    \/ Lock(1)
    \/ DecideAndUpdate(1)
    \/ \E ok \in BOOLEAN : WebhookSendAlert(1, ok)
    \/ RollbackLock(1)
    \/ Rollback(1)
    \/ Return(1)

SpecVerdict == VerdictInit /\ [][VerdictNext]_vars

\* ------------------------------------------------ specification: pruning
\* one site, the clock advancing by days between and during rounds, other
\* subsystems writing activity rows; retention of 1 day (health checks) and
\* 2 days (activity)
PruneSites == <<Site(1, "running", TRUE, FALSE, TRUE, FALSE)>>

PruneInit ==
    /\ NewChecker(PruneSites, DefaultAlertThreshold, 1, 2, FALSE, FALSE)
    /\ LockoutIdle
    /\ TwinIdle

\* a day passes
AdvanceDay ==
    /\ Alive
    /\ now < MaxDay
    /\ now' = now + 1
    /\ UNCHANGED <<twin, lockoutVars, checkerVars, sharedVars, semaphore, schedVars, tickerVars, workerVars,
                   siteTable, storeVars, sent, crashed>>

\* another subsystem writes an activity row (created_at defaults to
\* CURRENT_TIMESTAMP)
LogActivity ==
    /\ Alive
    /\ activityLog' = activityLog \cup {[CreatedAt |-> now]}
    /\ UNCHANGED <<healthChecks, lastExec>>
    /\ UNCHANGED <<twin, lockoutVars, checkerVars, sharedVars, semaphore, schedVars, tickerVars, workerVars,
                   siteTable, now, sent, crashed>>

PruneNext ==
    \/ Start
    \/ SelectTick
    \/ \E ok \in BOOLEAN : PruneHealthChecks(ok)
    \/ \E ok \in BOOLEAN : PruneActivityLog(ok)
    \/ GetAllSites(TRUE)
    \/ Launch
    \/ WaitDone
    \/ (round < PruneRounds /\ Tick)
    \/ AdvanceDay
    \/ LogActivity
    \/ Probe(1, 200, CertError, "running", TRUE)
    \/ CreateHealthCheck(1, TRUE)
    \/ Lock(1)
    \/ DecideAndUpdate(1)
    \/ Return(1)

SpecPrune == PruneInit /\ [][PruneNext]_vars

\* ------------------------------------------- specification: a hung probe
\* the sites of the engine specification, all healthy; from round HangRound
\* on the remote command of site 3 never returns (RunCommand has no
\* timeout).  Every goroutine that can take a step eventually takes it, and
\* the ticker keeps ticking.
HangProbe(s) ==
    /\ s = 3 => round < HangRound
    /\ Probe(s, 200, CertError, "running", TRUE)

HangScheduler ==
    \/ Start
    \/ SelectTick
    \/ PruneHealthChecks(TRUE)
    \/ PruneActivityLog(TRUE)
    \/ GetAllSites(TRUE)
    \/ LaunchSkip
    \/ Launch
    \/ WaitDone

HangTicker == round < HangRound + 1 /\ Tick

HangWorker(s) ==
    \/ HangProbe(s)
    \/ CreateHealthCheck(s, TRUE)
    \/ Lock(s)
    \/ DecideAndUpdate(s)
    \/ Return(s)

HangNext ==
    \/ HangScheduler
    \/ HangTicker
    \/ \E s \in SiteIDs : HangWorker(s)

SpecHang ==
    /\ Init
    /\ [][HangNext]_vars
    /\ WF_vars(HangScheduler)
    /\ WF_vars(HangTicker)
    /\ \A s \in {1, 3} : WF_vars(HangWorker(s))

\* ------------------------------------ specification: configured threshold
\* one site, up or down in every round, every notifier call succeeding or
\* failing; ALERT_THRESHOLD configured negative, zero or positive; with and
\* without a webhook, email always configured
ThresholdSites == <<Site(1, "running", TRUE, FALSE, TRUE, FALSE)>>

ThresholdInit ==
    /\ \E threshold \in -1..2, webhook \in BOOLEAN :
          NewChecker(ThresholdSites, threshold, 30, 90, webhook, TRUE)
    /\ LockoutIdle
    /\ TwinIdle

ThresholdNext ==
    \/ Start
    \/ SelectTick
    \/ PruneHealthChecks(TRUE)
    \/ PruneActivityLog(TRUE)
    \/ GetAllSites(TRUE)
    \/ Launch
    \/ WaitDone
    \/ (round < ThresholdRounds /\ Tick)
    \/ \E http \in {0, 200} : Probe(1, http, CertError, "running", TRUE)
    \/ CreateHealthCheck(1, TRUE)
    \/ Lock(1)
    \/ DecideAndUpdate(1)
    \/ \E ok \in BOOLEAN : WebhookSendAlert(1, ok)
    \/ RollbackLock(1)
    \/ Rollback(1)
    \/ \E ok \in BOOLEAN : WebhookSendRecovery(1, ok)
    \/ \E ok \in BOOLEAN : EmailSendAlert(1, ok)
    \/ \E ok \in BOOLEAN : EmailSendRecovery(1, ok)
    \/ Return(1)

SpecThreshold == ThresholdInit /\ [][ThresholdNext]_vars

\* ------------------------------------------------ specification: lockout
\* a tracker of its own, with every small limit and duration (a limit or a
\* duration of 0 is what LOCKOUT_MAX_ATTEMPTS=0 / LOCKOUT_DURATION_MIN=0
\* configure); callers query, record failures and reset two keys in any
\* order while time passes in whole units of the duration's clock
LockoutInit ==
    /\ NewChecker(<< >>, DefaultAlertThreshold, 30, 90, FALSE, FALSE)
    /\ \E maxFailedAttempts \in 0..2, lockoutDuration \in 0..2 :
          NewLockoutTracker(maxFailedAttempts, lockoutDuration)
    /\ TwinIdle

LockoutNext ==
    \/ \E key \in Keys : IsLocked(key)
    \/ \E key \in Keys : RecordFailure(key)
    \/ \E key \in Keys : Reset(key)
    \/ AdvanceDay

SpecLockout == LockoutInit /\ [][LockoutNext]_vars

\* --------------------------------- specification: two executions, one site
\* one site that is down in every round; in each round a second checkSite
\* for the same site runs its locked block concurrently with the worker of
\* the round; notifier calls succeed or fail
TwinSites == <<Site(1, "running", TRUE, FALSE, TRUE, FALSE)>>

TwinInit ==
    /\ \E threshold \in 1..2 : NewChecker(TwinSites, threshold, 30, 90, TRUE, TRUE)
    /\ LockoutIdle
    /\ TwinIdle

TwinNext ==
    \/ Start
    \/ SelectTick
    \/ PruneHealthChecks(TRUE)
    \/ PruneActivityLog(TRUE)
    \/ GetAllSites(TRUE)
    \/ Launch
    \/ WaitDone
    \/ (round < TwinRounds /\ Tick)
    \/ Probe(1, 0, CertError, "running", TRUE)
    \/ CreateHealthCheck(1, TRUE)
    \/ Lock(1)
    \/ DecideAndUpdate(1)
    \/ \E ok \in BOOLEAN : WebhookSendAlert(1, ok)
    \/ RollbackLock(1)
    \/ Rollback(1)
    \/ \E ok \in BOOLEAN : EmailSendAlert(1, ok)
    \/ Return(1)
    \/ TwinEnter
    \/ TwinLock
    \/ TwinRead
    \/ TwinWrite

SpecTwin == TwinInit /\ [][TwinNext]_vars

\* ------------------------------------ specification: expiring certificate
\* one SSL site over scripted rounds: the days until its certificate expires
\* as computed in each round, and the answer of its HTTP probe; the
\* certificate notification succeeds or fails, the outage notifications
\* succeed; AlertThreshold 2, with and without a webhook
CertSites == <<Site(1, "running", TRUE, TRUE, TRUE, FALSE)>>

CertScript ==
    <<CertDays(15), CertDays(14), CertDays(1), CertDays(0), CertError, CertDays(14)>>

HTTPScript == <<200, 0, 0, 200, 0, 0>>

CertAt(r) == IF r \in 1..Len(CertScript) THEN CertScript[r] ELSE CertError

HTTPAt(r) == IF r \in 1..Len(HTTPScript) THEN HTTPScript[r] ELSE 200

CertInit ==
    /\ \E webhook \in BOOLEAN : NewChecker(CertSites, 2, 30, 90, webhook, FALSE)
    /\ LockoutIdle
    /\ TwinIdle

CertNext ==
    \/ Start
    \/ SelectTick
    \/ PruneHealthChecks(TRUE)
    \/ PruneActivityLog(TRUE)
    \/ GetAllSites(TRUE)
    \/ Launch
    \/ WaitDone
    \/ (round < CertRounds /\ Tick)
    \/ \E certSent \in BOOLEAN : Probe(1, HTTPAt(round), CertAt(round), "running", certSent)
    \/ CreateHealthCheck(1, TRUE)
    \/ Lock(1)
    \/ DecideAndUpdate(1)
    \/ WebhookSendAlert(1, TRUE)
    \/ WebhookSendRecovery(1, TRUE)
    \/ Return(1)

SpecCert == CertInit /\ [][CertNext]_vars

\* ------------------------------------------ specification: container probes
\* a local site (1, with a compose path) and a remote site (2), both
\* answering HTTP 200; the container runtime behaves per round as scripted:
\* round 1 the container does not exist, round 2 the client cannot be
\* created, round 3 the command fails / the compose listing finds the
\* container exited, round 4 the server lookup fails
ContainerSites ==
    <<Site(1, "running", TRUE, FALSE, TRUE, FALSE) @@ [HasCompose |-> TRUE],
      Site(2, "running", TRUE, FALSE, FALSE, TRUE) @@ [HasCompose |-> FALSE]>>

LocalScript ==
    <<Outcome("inspect", "", FALSE), Outcome("client", "", FALSE),
      Outcome("inspect", "exited", TRUE), Outcome("none", "running", FALSE)>>

RemoteScript ==
    <<Outcome("inspect", "", FALSE), Outcome("ssh", "", FALSE),
      Outcome("run", "", FALSE), Outcome("lookup", "", FALSE)>>

OutcomeAt(s, r) ==
    IF r \in 1..Len(LocalScript)
    THEN IF s = 1 THEN LocalScript[r] ELSE RemoteScript[r]
    ELSE Outcome("none", "running", FALSE)

ContainerInit ==
    /\ NewChecker(ContainerSites, 1, 30, 90, TRUE, FALSE)
    /\ LockoutIdle
    /\ TwinIdle

ContainerNext ==
    \/ Start
    \/ SelectTick
    \/ PruneHealthChecks(TRUE)
    \/ PruneActivityLog(TRUE)
    \/ GetAllSites(TRUE)
    \/ Launch
    \/ WaitDone
    \/ (round < ContainerRounds /\ Tick)
    \/ \E s \in SiteIDs :
          Probe(s, 200, CertError, ContainerProbe(SiteByID(s), OutcomeAt(s, round)), TRUE)
    \/ \E s \in SiteIDs : CreateHealthCheck(s, TRUE)
    \/ \E s \in SiteIDs : Lock(s)
    \/ \E s \in SiteIDs : DecideAndUpdate(s)
    \/ \E s \in SiteIDs : WebhookSendAlert(s, TRUE)
    \/ \E s \in SiteIDs : WebhookSendRecovery(s, TRUE)
    \/ \E s \in SiteIDs : Return(s)

SpecContainer == ContainerInit /\ [][ContainerNext]_vars

\* ------------------------------------------- specification: fair engine
\* two active sites that are down, AlertThreshold 1, notifier calls that
\* return (succeeding or failing), the site list read succeeding or
\* failing, cancellation at any time.  Every call returns: the scheduler
\* goroutine and the worker goroutines keep taking the steps they can take.
FairSites ==
    <<Site(1, "running", TRUE, FALSE, TRUE, FALSE),
      Site(2, "running", TRUE, FALSE, TRUE, FALSE)>>

FairInit ==
    /\ NewChecker(FairSites, 1, 30, 90, TRUE, TRUE)
    /\ LockoutIdle
    /\ TwinIdle

FairScheduler ==
    \/ Start
    \/ SelectTick
    \/ SelectDone
    \/ PruneHealthChecks(TRUE)
    \/ PruneActivityLog(TRUE)
    \/ \E ok \in BOOLEAN : GetAllSites(ok)
    \/ Launch
    \/ WaitDone

FairWorkers ==
    \E s \in SiteIDs :
        \/ Probe(s, 0, CertError, "running", TRUE)
        \/ CreateHealthCheck(s, TRUE)
        \/ Lock(s)
        \/ DecideAndUpdate(s)
        \/ \E ok \in BOOLEAN : WebhookSendAlert(s, ok)
        \/ RollbackLock(s)
        \/ Rollback(s)
        \/ \E ok \in BOOLEAN : EmailSendAlert(s, ok)
        \/ Return(s)

FairNext ==
    \/ FairScheduler
    \/ FairWorkers
    \/ (round < FairRounds /\ Tick)
    \/ Cancel

SpecFair ==
    /\ FairInit
    /\ [][FairNext]_vars
    /\ WF_vars(FairScheduler)
    /\ WF_vars(FairWorkers)

\* ------------------------------------------ specification: empty domain
\* one local site without a domain; whatever a GET would have answered and
\* whatever state its container is in; notifier calls succeed or fail
NoDomainSites == <<Site(1, "running", FALSE, FALSE, TRUE, FALSE)>>

NoDomainInit ==
    /\ NewChecker(NoDomainSites, 2, 30, 90, TRUE, TRUE)
    /\ LockoutIdle
    /\ TwinIdle

NoDomainNext ==
    \/ Start
    \/ SelectTick
    \/ PruneHealthChecks(TRUE)
    \/ PruneActivityLog(TRUE)
    \/ GetAllSites(TRUE)
    \/ Launch
    \/ WaitDone
    \/ (round < NoDomainRounds /\ Tick)
    \/ \E http \in {0, 200}, cs \in {"running", "exited"} :
          Probe(1, http, CertError, cs, TRUE)
    \/ CreateHealthCheck(1, TRUE)
    \/ Lock(1)
    \/ DecideAndUpdate(1)
    \/ \E ok \in BOOLEAN : WebhookSendAlert(1, ok)
    \/ RollbackLock(1)
    \/ Rollback(1)
    \/ \E ok \in BOOLEAN : EmailSendAlert(1, ok)
    \/ Return(1)

SpecNoDomain == NoDomainInit /\ [][NoDomainNext]_vars

\* ------------------------------------------- specification: down streaks
\* two sites checked together: site 1 answers by a fixed script (three rounds
\* down, one up, down again), site 2 answers or fails freely in every round;
\* webhook and email configured, every notifier call succeeding or failing
StreakSites ==
    <<Site(1, "running", TRUE, FALSE, TRUE, FALSE),
      Site(2, "running", TRUE, FALSE, TRUE, FALSE)>>

StreakScript == <<0, 0, 0, 200, 0, 0>>

StreakHTTP(r) == IF r \in 1..Len(StreakScript) THEN StreakScript[r] ELSE 200

StreakInit ==
    /\ NewChecker(StreakSites, 2, 30, 90, TRUE, TRUE)
    /\ LockoutIdle
    /\ TwinIdle

StreakNext ==
    \/ Start
    \/ SelectTick
    \/ PruneHealthChecks(TRUE)
    \/ PruneActivityLog(TRUE)
    \/ GetAllSites(TRUE)
    \/ Launch
    \/ WaitDone
    \/ (round < StreakRounds /\ Tick)
    \/ Probe(1, StreakHTTP(round), CertError, "running", TRUE)
    \/ \E http \in {0, 200} : Probe(2, http, CertError, "running", TRUE)
    \/ \E s \in {1, 2} :
          \/ CreateHealthCheck(s, TRUE)
          \/ Lock(s)
          \/ DecideAndUpdate(s)
          \/ \E ok \in BOOLEAN : WebhookSendAlert(s, ok)
          \/ RollbackLock(s)
          \/ Rollback(s)
          \/ \E ok \in BOOLEAN : WebhookSendRecovery(s, ok)
          \/ \E ok \in BOOLEAN : EmailSendAlert(s, ok)
          \/ \E ok \in BOOLEAN : EmailSendRecovery(s, ok)
          \/ Return(s)

SpecStreak == StreakInit /\ [][StreakNext]_vars

\* ----------------------------------------------------------- properties
Active == {s \in SiteIDs : pc[s] # "idle"}

WebhookAlerts(s) == {c \in sent : c.site = s /\ c.chan = "webhook" /\ c.kind = "alert" /\ c.detail = "down"}

\* C1: a round starts only when no round is executing: the running flag is
\* idle and no worker of an earlier round is still inside checkSite.
RoundsNeverOverlap ==
    [][round' # round => (running = 0 /\ Active = {})]_vars

\* C1 witness: a later round is executing after a tick arrived during the
\* round before it
SecondRoundRunning == round >= 2 /\ running = 1 /\ Active # {}

\* C3: an up verdict stores 0 in failures[site], and failures[site] = 0
\* implies alertedSites[site] = FALSE in every state.
UpResetsAndZeroNotAlerted ==
    /\ [](\A s \in SiteIDs : failures[s] = 0 => ~alertedSites[s])
    /\ [][\A s \in SiteIDs :
            (pc[s] = "locked" /\ pc'[s] # "locked" /\ ~isDown[s]) => failures'[s] = 0]_vars

\* C3 witness: an alerted site has just been reset by an up verdict
UpVerdictAfterAlert ==
    \E s \in SiteIDs : shouldRecover[s] /\ failures[s] = 0 /\ ~alertedSites[s]
                       /\ WebhookAlerts(s) # {}

\* the worker of s is past the webhook alert stage of checkSite
PastWebhookAlert(s) ==
    pc[s] \in {"rollbackLock", "rollback", "webhookRecovery", "emailAlert", "emailRecovery", "return"}

\* the worker of s has not yet run the locked block in the current round
BeforeUpdate(s) ==
    \/ pc[s] \in {"probe", "record", "lock", "locked"}
    \/ pc[s] = "idle" /\ schedPc \in {"pruneHealth", "pruneActivity", "getSites"}

\* C5: after a failed webhook SendAlert and its rollback, failures[site]
\* still has the count of that round and alertedSites[site] is FALSE; the
\* next round, if down for the site, calls the webhook SendAlert again.
WebhookFailureRetried ==
    \A s \in SiteIDs : \A c \in WebhookAlerts(s) :
        ~c.ok =>
          /\ (c.round = round /\ pc[s] \notin {"webhookAlert", "rollbackLock", "rollback"})
                => (failures[s] = c.count /\ ~alertedSites[s])
          /\ (c.round = round - 1 /\ BeforeUpdate(s))
                => (failures[s] = c.count /\ ~alertedSites[s])
          /\ (c.round = round - 1 /\ isDown[s] /\ PastWebhookAlert(s))
                => (\E d \in WebhookAlerts(s) : d.round = round /\ d.count = c.count + 1)

\* C5 witness: the webhook alert failed in one round and was sent again in
\* the next
AlertSentAgain ==
    \E s \in SiteIDs : \E c \in WebhookAlerts(s), d \in WebhookAlerts(s) :
        ~c.ok /\ d.round = c.round + 1 /\ d.round = round

\* C6: a worker reads or writes the failures / alertedSites maps only while
\* it holds the mutex.
MapAccessUnderMutex ==
    \A s \in SiteIDs : AccessesMaps(s) => mu = s

\* C7: once the context is cancelled, no further round starts.
NoRoundAfterCancel ==
    [][(cancelled /\ round >= 1) => round' = round]_vars

\* C8: a tick that fired while a round was executing never starts a round.
TickDuringRoundDropped ==
    [][round' # round => ~tickStale]_vars

\* C4: at no instant are more than maxConcurrentChecks (10) checkSite
\* executions in progress, however many sites are active.
AtMostTenInFlight ==
    /\ Cardinality(Active) <= 10
    /\ semaphore = Cardinality(Active)

\* C4 witness: ten workers are executing while the launch loop still has an
\* active site to launch
PoolFullLaunchBlocked ==
    /\ Cardinality(Active) = 10
    /\ schedPc = "launch"
    /\ sites[launchIdx].Status # "pending"

\* round r has been executed to its end
RoundDone(r) == round > r \/ (round = r /\ schedPc \in {"select", "stopped"})

Configured(chan) == IF chan = "webhook" THEN Webhook ELSE Email

SendAlertCalls(chan) == {c \in sent : c.chan = chan /\ c.kind = "alert"}

OutageAlertCalls(chan) == {c \in SendAlertCalls(chan) : c.detail = "down"}

RecoveryCalls(chan) == {c \in sent : c.chan = chan /\ c.kind = "recovery"}

\* C2 as stated: with AlertThreshold 3 and verdicts down, down, down, down,
\* up, every configured channel receives exactly one SendAlert call, in
\* round 3, and exactly one SendRecovery call, in the up round.
OneAlertOneRecovery ==
    \A chan \in {"webhook", "email"} :
        /\ \A c \in SendAlertCalls(chan) : c.round = 3
        /\ \A c \in RecoveryCalls(chan) : c.round = 5
        /\ (Configured(chan) /\ RoundDone(3)) => Cardinality(SendAlertCalls(chan)) = 1
        /\ (Configured(chan) /\ RoundDone(5)) => Cardinality(RecoveryCalls(chan)) = 1
        /\ ~Configured(chan) => (SendAlertCalls(chan) = {} /\ RecoveryCalls(chan) = {})

\* C2 amended: the same, counting the SendAlert calls made for the outage
\* and not the certificate-expiry notifications of the certificate probe.
OneOutageAlertOneRecovery ==
    \A chan \in {"webhook", "email"} :
        /\ \A c \in OutageAlertCalls(chan) : c.round = 3 /\ c.count = 3
        /\ \A c \in RecoveryCalls(chan) : c.round = 5
        /\ (Configured(chan) /\ RoundDone(3)) => Cardinality(OutageAlertCalls(chan)) = 1
        /\ (Configured(chan) /\ RoundDone(5)) => Cardinality(RecoveryCalls(chan)) = 1
        /\ ~Configured(chan) => (OutageAlertCalls(chan) = {} /\ RecoveryCalls(chan) = {})

\* C2 witness: the five rounds are over with both channels configured
OutageOver ==
    /\ RoundDone(5)
    /\ Webhook
    /\ Email
    /\ Cardinality(OutageAlertCalls("webhook")) = 1
    /\ Cardinality(RecoveryCalls("email")) = 1

\* the worker of s has run the locked block and still holds its check
Decided(s) == pc[s] \in {"webhookAlert", "rollbackLock", "rollback", "return"}

\* C9: the verdict is down exactly when HTTPStatus is 0 or at least 400 or
\* ContainerStatus is not_found or exited, for every combination: the first
\* check of a site counts one failure exactly in these cases.
DownVerdictRule ==
    \A s \in SiteIDs : Decided(s) =>
        /\ failures[s] =
              IF \/ hc[s].HTTPStatus = 0
                 \/ hc[s].HTTPStatus >= 400
                 \/ hc[s].ContainerStatus \in {"not_found", "exited"}
              THEN 1 ELSE 0
        /\ hc[s].HTTPStatus \in {0, 404} => shouldAlert[s]
        /\ (hc[s].HTTPStatus = 200 /\ hc[s].ContainerStatus = "exited") => shouldAlert[s]
        /\ (hc[s].HTTPStatus = 200 /\
            hc[s].ContainerStatus \in {"running", "docker_error", "ssh_error", "unknown", ""})
               => (failures[s] = 0 /\ ~shouldAlert[s])

\* C9 witness: HTTP 200 with an exited container has been counted as down
ExitedCountedDown ==
    \E s \in SiteIDs :
        /\ Decided(s)
        /\ hc[s] = [HTTPStatus |-> 200, ContainerStatus |-> "exited"]
        /\ failures[s] = 1

HealthWithin(r) == now - r.CheckedAt <= HealthRetentionDays

ActivityWithin(r) == now - r.CreatedAt <= ActivityRetentionDays

\* C10 as stated: when a round ends, no health-check row that was older
\* than HealthRetentionDays when the round began remains, and no activity
\* row that was older than ActivityRetentionDays.
RoundLeavesNoExpiredRow ==
    [][(running = 1 /\ running' = 0) =>
          /\ \A r \in healthChecks' : roundStart - r.CheckedAt <= HealthRetentionDays
          /\ \A r \in activityLog' : roundStart - r.CreatedAt <= ActivityRetentionDays]_vars

\* C10 amended: a prune statement that succeeds leaves, at that moment, no
\* row of its table older than the retention days; no statement, failed or
\* not, removes a row within the window; and no other step removes a row.
PruneRemovesExactlyExpired ==
    [][/\ schedPc = "pruneHealth" /\ schedPc' = "pruneActivity" =>
            /\ \A r \in healthChecks : HealthWithin(r) => r \in healthChecks'
            /\ lastExec'.ok => \A r \in healthChecks' : HealthWithin(r)
       /\ schedPc = "pruneActivity" /\ schedPc' = "getSites" =>
            /\ \A r \in activityLog : ActivityWithin(r) => r \in activityLog'
            /\ lastExec'.ok => \A r \in activityLog' : ActivityWithin(r)
       /\ schedPc # "pruneHealth" => healthChecks \subseteq healthChecks'
       /\ schedPc # "pruneActivity" => activityLog \subseteq activityLog'
       /\ healthChecks' \subseteq healthChecks \/ healthChecks \subseteq healthChecks']_vars

\* C10 witness: the health-check prune has just deleted a row and kept a
\* row whose age is exactly the retention
ExpiredRowDeleted ==
    /\ schedPc = "pruneActivity"
    /\ lastExec.ok
    /\ lastExec.rows > 0
    /\ \E r \in healthChecks : now - r.CheckedAt = HealthRetentionDays

\* C11: the running flag is never idle while a worker launched by a round
\* is still inside checkSite.
FlagHeldWhileWorkersRun ==
    Active # {} => running = 1

\* C11 witness: checkAll is blocked in wg.Wait() on a worker that is still
\* executing
WaitingOnWorker == schedPc = "wait" /\ Active # {} /\ running = 1

\* C12: although the probe of one site never returns, a later round is
\* started.
RoundStartsDespiteHungProbe == <>(round > HangRound)

\* C13: the stored threshold is at least 1; a site flagged as alerted has a
\* failure count of at least the threshold; and a worker that decided to send
\* an alert did so with a failure count of at least the threshold.
AlertedOnlyAtThreshold ==
    /\ AlertThreshold >= 1
    /\ \A s \in SiteIDs :
          /\ alertedSites[s] => failures[s] >= AlertThreshold
          /\ shouldAlert[s] => failures[s] >= AlertThreshold

\* C13 witness: with a non-positive configured threshold the default is in
\* force and the site has been alerted at exactly that many failures
AlertedAtDefaultThreshold ==
    /\ AlertThreshold = DefaultAlertThreshold
    /\ alertedSites[1]
    /\ shouldAlert[1]
    /\ failures[1] = DefaultAlertThreshold

\* the outage alerts sent by email for site s
EmailAlerts(s) == {c \in sent : c.site = s /\ c.chan = "email" /\ c.kind = "alert"}

\* the recovery calls made for site s on a channel
Recoveries(s, chan) == {c \in sent : c.site = s /\ c.chan = chan /\ c.kind = "recovery"}

\* C14: after a failed recovery notification failures[site] is 0 and
\* alertedSites[site] is FALSE until the site's next verdict, and a later
\* recovery on the same channel is sent only after a new outage alert in a
\* round between the two: up rounds that follow do not re-send it.
RecoveryFailureIsFinal ==
    \A s \in SiteIDs : \A chan \in {"webhook", "email"} : \A c \in Recoveries(s, chan) :
        ~c.ok =>
          /\ (c.round = round \/ (c.round = round - 1 /\ BeforeUpdate(s)))
                => (failures[s] = 0 /\ ~alertedSites[s])
          /\ \A e \in Recoveries(s, chan) :
                e.round > c.round
                  => \E a \in EmailAlerts(s) : c.round < a.round /\ a.round < e.round

\* C14 witness: both recovery notifications of a round failed and the next
\* round, up again, has run its dispatch without sending a recovery
FailedRecoveryThenUp ==
    \E c \in Recoveries(1, "webhook"), e \in Recoveries(1, "email") :
        /\ ~c.ok /\ ~e.ok /\ c.round = e.round
        /\ round = c.round + 1
        /\ pc[1] = "return" /\ ~isDown[1]
        /\ failures[1] = 0 /\ ~alertedSites[1]
        /\ Recoveries(1, "webhook") = {c}

\* a key with fewer than maxFails failures recorded since the tracker was
\* created or the key was reset is not locked (a new key has none)
NotLockedBelowLimit ==
    \A k \in Keys : failCalls[k] < maxFails => ~IsLockedResult(k)

\* the maxFails-th RecordFailure of key k has just returned
JustReachedLimit(k) ==
    /\ failCalls[k] = maxFails
    /\ k \in DOMAIN attempts
    /\ attempts[k].LastFail = now

\* Reset(key) leaves the key not locked
NotLockedAfterReset ==
    \A k \in Keys : Reset(k) => ~IsLockedResult(k)'

\* C15: a key is not locked with fewer than maxFails recorded failures, is
\* locked right after the maxFails-th RecordFailure, is not locked after
\* Reset, and is not locked once lockDur has elapsed since the time it
\* became locked.
LockoutAsClaimed ==
    /\ [](NotLockedBelowLimit)
    /\ [](\A k \in Keys : JustReachedLimit(k) => IsLockedResult(k))
    /\ [][NotLockedAfterReset]_vars
    /\ [](\A k \in Keys :
            (lockedSince[k] # ZeroTime /\ Since(lockedSince[k]) >= lockDur)
               => ~IsLockedResult(k))

\* C15 amended: the same, the key being locked right after the maxFails-th
\* RecordFailure when lockDur is positive, and not locked once lockDur has
\* elapsed since the most recent RecordFailure for the key.
LockoutRule ==
    /\ [](NotLockedBelowLimit)
    /\ [](\A k \in Keys : (JustReachedLimit(k) /\ lockDur > 0) => IsLockedResult(k))
    /\ [][NotLockedAfterReset]_vars
    /\ [](\A k \in DOMAIN attempts :
            Since(attempts[k].LastFail) >= lockDur => ~IsLockedResult(k))

\* C15 witness: a key that became locked, had a further failure recorded
\* while locked, and is not locked now that lockDur has elapsed since that
\* last failure
LockExpired ==
    \E k \in DOMAIN attempts :
        /\ maxFails >= 1 /\ lockDur >= 1
        /\ lockedSince[k] # ZeroTime
        /\ attempts[k].Count > maxFails
        /\ attempts[k].LastFail > lockedSince[k]
        /\ Since(attempts[k].LastFail) >= lockDur
        /\ ~IsLockedResult(k)

\* the number of locked blocks the worker of site 1 has completed: one per
\* round, the current round's once the worker is past it
WorkerBlocks ==
    IF \/ pc[1] \in {"probe", "record", "lock", "locked"}
       \/ pc[1] = "idle" /\ schedPc \in {"pruneHealth", "pruneActivity", "getSites", "launch"}
    THEN round - 1
    ELSE round

\* the worker of site 1 decided in the current round to send the alert
WorkerDecidedAlert ==
    \/ shouldAlert[1]
    \/ \E c \in WebhookAlerts(1) : c.round = round

\* the second execution decided in the current round to send the alert
TwinDecidedAlert == twin.shouldAlert /\ twin.round = round /\ twin.pc = "done"

\* the webhook alert of the worker of site 1 failed in the current round
WorkerAlertFailed == \E c \in WebhookAlerts(1) : c.round = round /\ ~c.ok

InLockedSection(s) == pc[s] \in {"locked", "rollback"}

\* the worker of s is performing a probe or a notification call
ProbingOrNotifying(s) ==
    pc[s] \in {"probe", "webhookAlert", "webhookRecovery", "emailAlert", "emailRecovery"}

\* C17: a worker holds the mutex only inside the decide-and-update block and
\* the rollback write, never during a probe or a notification call; when no
\* worker is in either, the mutex is free for any worker that wants it.
MutexNotHeldDuringIO ==
    /\ \A s \in SiteIDs : mu = s => InLockedSection(s)
    /\ \A s \in SiteIDs : ProbingOrNotifying(s) => mu # s
    /\ (\A s \in SiteIDs : ~InLockedSection(s)) => mu = 0

\* C17 witness: one worker is inside its locked block while the worker of
\* another site is in a notification call
UpdateDuringNotification ==
    \E s, t \in SiteIDs :
        /\ s # t
        /\ pc[s] \in {"webhookAlert", "emailAlert", "webhookRecovery", "emailRecovery"}
        /\ pc[t] = "locked"
        /\ mu = t

\* the webhook alert of the round of call c succeeded, or there is no webhook
WebhookDelivered(s, c) ==
    \/ ~Webhook
    \/ \E w \in WebhookAlerts(s) : w.round = c.round /\ w.ok

\* C18: after a failed email SendAlert (the webhook alert having succeeded,
\* or no webhook being configured) alertedSites[site] is TRUE and
\* failures[site] is the count of that round until the site's next verdict,
\* and a later email alert for the site is sent only after a recovery in a
\* round between the two: none for the rest of the outage.
EmailFailureNotRetried ==
    \A s \in SiteIDs : \A c \in EmailAlerts(s) :
        (~c.ok /\ WebhookDelivered(s, c)) =>
          /\ (c.round = round \/ (c.round = round - 1 /\ BeforeUpdate(s)))
                => (failures[s] = c.count /\ alertedSites[s])
          /\ \A e \in EmailAlerts(s) :
                e.round > c.round
                  => \E u \in Recoveries(s, "email") : c.round < u.round /\ u.round < e.round

\* C18 witness: the email alert of an earlier round failed, the webhook being
\* absent or successful, and the site has been judged down again without a
\* new alert decision
DownAgainAfterEmailFailure ==
    \E c \in EmailAlerts(1) :
        /\ ~c.ok /\ WebhookDelivered(1, c)
        /\ c.round = round - 1
        /\ pc[1] = "return" /\ isDown[1] /\ ~shouldAlert[1]
        /\ alertedSites[1] /\ failures[1] = c.count + 1
        /\ EmailAlerts(1) = {c}

\* the round in which the down streak of alert call c began (the call carries
\* the number of consecutive down verdicts reached in its round)
StreakStart(c) == c.round - c.count

\* C19: during one unbroken streak of down verdicts the email SendAlert is
\* invoked at most once, and the webhook SendAlert is not invoked again after
\* one that succeeded.
DebouncedOnEveryChannel ==
    \A s \in SiteIDs :
        /\ \A c, e \in EmailAlerts(s) : StreakStart(c) = StreakStart(e) => c = e
        /\ \A c, e \in WebhookAlerts(s) :
              (c.ok /\ StreakStart(c) = StreakStart(e)) => e.round <= c.round

\* the certificate-expiry notifications sent for site s
CertAlerts(s) == {c \in sent : c.site = s /\ c.detail = "cert"}

\* the probes of round r have been carried out
ProbesDone(r) ==
    \/ round > r
    \/ round = r /\ WorkerBlocks = r
    \/ round = r /\ pc[1] \in {"record", "lock", "locked"}

\* the number of consecutive down answers of the HTTP probe up to round r
RECURSIVE DownStreak(_)
DownStreak(r) == IF r = 0 \/ HTTPAt(r) # 0 THEN 0 ELSE 1 + DownStreak(r - 1)

\* C20: with a webhook configured, the certificate-expiry notification is
\* sent, with failure count 0, in exactly the rounds in which the computed
\* days until expiry are in (0, 14], whatever was sent before; the step that
\* sends it leaves failures, alertedSites and the verdict as they are, and
\* the failure count and the alerted flag follow the HTTP answers alone,
\* whether the notification was delivered or failed.
CertAlertIndependent ==
    /\ [](\A r \in 1..CertRounds :
            ProbesDone(r) =>
              ((\E c \in CertAlerts(1) : c.round = r)
                  <=> (Webhook /\ ~CertAt(r).err /\ CertAt(r).days > 0
                       /\ CertAt(r).days <= CertWarnDays)))
    /\ [](\A c \in CertAlerts(1) : c.chan = "webhook" /\ c.kind = "alert" /\ c.count = 0)
    /\ [][CertAlerts(1)' # CertAlerts(1) =>
            (failures' = failures /\ alertedSites' = alertedSites /\ isDown' = isDown)]_vars
    /\ [](pc[1] \in {"lock", "locked"} => (isDown[1] <=> HTTPAt(round) = 0))
    /\ [](/\ failures[1] = DownStreak(WorkerBlocks)
          /\ alertedSites[1] <=> (failures[1] >= AlertThreshold))

\* C20 witness: the notification failed in round 2 and was sent again in
\* round 3, in which the outage alert was decided as well
CertAlertRepeated ==
    \E c, e \in CertAlerts(1) :
        /\ c.round = 2 /\ ~c.ok
        /\ e.round = 3
        /\ round = 3 /\ pc[1] = "return"
        /\ alertedSites[1] /\ failures[1] = 2

\* the sites of the table whose Status is pending
PendingSites == {s \in SiteIDs : SiteByID(s).Status = "pending"}

\* the statement a worker reaches from each statement of checkSite: every
\* call passes once through the record insert and once through the locked
\* block
NextStatements(stmt) ==
    CASE stmt = "idle" -> {"probe"}
      [] stmt = "probe" -> {"record"}
      [] stmt = "record" -> {"lock"}
      [] stmt = "lock" -> {"locked"}
      [] stmt = "locked" -> {"webhookAlert", "webhookRecovery", "emailAlert",
                             "emailRecovery", "return"}
      [] stmt = "webhookAlert" -> {"rollbackLock", "webhookRecovery", "emailAlert",
                                   "emailRecovery", "return"}
      [] stmt = "rollbackLock" -> {"rollback"}
      [] stmt = "rollback" -> {"webhookRecovery", "emailAlert", "emailRecovery", "return"}
      [] stmt = "webhookRecovery" -> {"emailAlert", "emailRecovery", "return"}
      [] stmt = "emailAlert" -> {"emailRecovery", "return"}
      [] stmt = "emailRecovery" -> {"return"}
      [] stmt = "return" -> {"idle"}

BeforeStateUpdate(s) == pc[s] \in {"probe", "record", "lock", "locked"}

\* C22: the health-check record of a site's check is written only after the
\* state update under the lock and the notification dispatch of that check.
RecordWrittenLast ==
    [][\A s \in SiteIDs :
          (pc[s] = "record" /\ pc'[s] # "record") => ~BeforeStateUpdate(s)]_vars

\* the worker of s holds the result of this round's probes
Probed(s) == pc[s] \notin {"idle", "probe", "return"}

Sentinels == {"docker_error", "ssh_error", "not_found", "unknown"}

\* C23: whenever the container probe fails, the status it records is one of
\* docker_error, ssh_error, not_found, unknown; a container that does not
\* exist is recorded as not_found for the remote site as for the local one,
\* and the verdict is down in both cases.
ContainerFailuresAreSentinels ==
    \A s \in SiteIDs :
        LET o == OutcomeAt(s, round) IN
        /\ (Probed(s) /\ o.step # "none") =>
              (hc[s].ContainerStatus \in Sentinels \/ (o.listed /\ hc[s].ContainerStatus = o.state))
        /\ (Probed(s) /\ o.step = "inspect" /\ ~o.listed) =>
              hc[s].ContainerStatus = "not_found"
        /\ (pc[s] \in {"lock", "locked"} /\ o.step = "inspect" /\ ~o.listed) => isDown[s]

\* C24: a step of the worker of one site leaves the failure count and the
\* alerted flag of every other site as they are; an entry changes only in a
\* step of its own site's worker inside the locked block or the rollback.
PerSiteStateIndependent ==
    [][\A a, b \in SiteIDs :
          /\ (a # b /\ pc'[a] # pc[a])
                => (failures'[b] = failures[b] /\ alertedSites'[b] = alertedSites[b])
          /\ (failures'[b] # failures[b] \/ alertedSites'[b] # alertedSites[b])
                => (pc[b] \in {"locked", "rollback"} /\ mu = b /\ pc'[b] # pc[b])]_vars

\* C24 witness: in one round the webhook alert of site 1 failed and was
\* rolled back while site 3 was alerted and stays so
RolledBackBesideAlerted ==
    /\ \E c \in WebhookAlerts(1) : c.round = round /\ ~c.ok
    /\ \E c \in WebhookAlerts(3) : c.round = round /\ c.ok
    /\ pc[1] = "return" /\ pc[3] = "return"
    /\ ~alertedSites[1] /\ failures[1] = AlertThreshold
    /\ alertedSites[3] /\ failures[3] = AlertThreshold

\* C25: a round that is executing when the cancellation arrives is carried
\* to its end, every worker returning, and the scheduler stops only when no
\* round is executing.
CancelledRoundCompletes ==
    /\ (cancelled /\ running = 1) ~> (cancelled /\ running = 0 /\ Active = {})
    /\ [](schedPc = "stopped" => (cancelled /\ running = 0 /\ Active = {}))

\* C26: every started round finishes, and when it does the flag is idle,
\* every worker has returned and every semaphore slot is free.
RoundTerminates ==
    /\ (running = 1) ~> (running = 0)
    /\ [][(running = 1 /\ running' = 0) => (semaphore' = 0 /\ wg' = 0 /\ Active' = {})]_vars

\* the scheduler goroutine is about to call checkAll, or has returned
AtCheckAllEntry == schedPc \in {"start", "select", "stopped"}

\* C27: whenever Start is about to call checkAll the flag is idle, so the
\* compare-and-swap succeeds: every call of checkAll (the first one and
\* the one after each received tick) begins a round, none is skipped.
SwapNeverFails ==
    /\ [](AtCheckAllEntry => running = 0)
    /\ [][((schedPc = "start" /\ schedPc' # "start") \/ (tickPending /\ ~tickPending'))
            => (running = 0 /\ running' = 1 /\ round' = round + 1
                /\ schedPc' = "pruneHealth")]_vars

\* C27 witness: checkAll, called for a tick, has just swapped the flag for
\* a further round
TickStartedRound ==
    /\ round = 2
    /\ schedPc = "pruneHealth"
    /\ running = 1
    /\ ~tickPending

\* the outage alerts delivered for site s on a channel
DeliveredAlerts(s, chan) ==
    {c \in sent : c.site = s /\ c.chan = chan /\ c.kind = "alert"
                  /\ c.detail = "down" /\ c.ok}

\* C28: when a site whose alert was delivered on a channel in the round
\* before is judged up, its check invokes SendRecovery on that channel.
DeliveredAlertRecovered ==
    \A s \in SiteIDs : \A chan \in {"webhook", "email"} :
        \A c \in DeliveredAlerts(s, chan) :
            (c.round = round - 1 /\ pc[s] = "return" /\ ~isDown[s])
               => \E u \in Recoveries(s, chan) : u.round = round

\* C29: for a site without a domain the recorded HTTPStatus is 0 and the
\* verdict is down in every round whatever the container status; its
\* failure count is the number of checks made; once the count has reached
\* the threshold the alert has been sent for the round that reached it; and
\* no recovery is ever sent.
NoDomainAlwaysDown ==
    /\ NoDomainSites[1].HasDomain = FALSE
    /\ hc[1].HTTPStatus = 0
    /\ \A row \in healthChecks : row.HTTPStatus = 0
    /\ pc[1] \in {"lock", "locked"} => isDown[1]
    /\ failures[1] = WorkerBlocks
    /\ (failures[1] >= AlertThreshold /\ pc[1] \in {"return", "idle"})
          => \E c \in WebhookAlerts(1) : c.count = AlertThreshold /\ c.round = AlertThreshold
    /\ \A c \in sent : c.kind # "recovery"
    /\ ~shouldRecover[1]

\* C29 witness: three rounds have judged the site down although its
\* container was running each time
DownWithRunningContainer ==
    /\ round = 3
    /\ pc[1] = "return"
    /\ hc[1].ContainerStatus = "running"
    /\ healthChecks = {Row(1, [HTTPStatus |-> 0, ContainerStatus |-> "running"])}
    /\ failures[1] = 3
    /\ \E c \in WebhookAlerts(1) : c.count = 2

\* the number of consecutive scripted down answers of site 1 ending with
\* round r
RECURSIVE ScriptedStreak(_)
ScriptedStreak(r) == IF r = 0 \/ StreakHTTP(r) # 0 THEN 0 ELSE 1 + ScriptedStreak(r - 1)

\* the number of rounds in which the worker of site 1, the first site of the
\* list, has passed the locked block of checkSite
DecidedRounds ==
    IF \/ pc[1] \in {"probe", "record", "lock", "locked"}
       \/ pc[1] = "idle" /\ schedPc \in {"pruneHealth", "pruneActivity", "getSites"}
       \/ pc[1] = "idle" /\ schedPc = "launch" /\ launchIdx = 1
    THEN round - 1
    ELSE round

\* C30: failures[site] is the number of consecutive down verdicts since the
\* site's last up verdict: it is the length of the scripted down streak
\* after every completed check of site 1, and for every site the counter
\* changes only in the locked block of checkSite, where a down verdict adds
\* exactly 1 and an up verdict stores 0; notifier calls, failed or not, and
\* the rollback leave it alone.
CounterIsDownStreak ==
    /\ [](failures[1] = ScriptedStreak(DecidedRounds))
    /\ [][\A s \in SiteIDs :
            /\ (pc[s] = "locked" /\ pc'[s] # "locked")
                  => failures'[s] = IF isDown[s] THEN failures[s] + 1 ELSE 0
            /\ failures'[s] # failures[s] => (pc[s] = "locked" /\ pc'[s] # "locked")]_vars

\* C30 witness: the webhook alert failed and was rolled back in rounds 2 and
\* 3 and the email alert failed, and the counter stands at the three down
\* verdicts
CountedAcrossRollbacks ==
    /\ round = 3
    /\ pc[1] = "return"
    /\ failures[1] = 3
    /\ ~alertedSites[1]
    /\ \E c, e \in WebhookAlerts(1) :
          /\ c.round = 2 /\ c.count = 2 /\ ~c.ok
          /\ e.round = 3 /\ e.count = 3 /\ ~e.ok
    /\ \E c \in EmailAlerts(1) : ~c.ok

====
